---- MODULE Spec2Model ----
(***************************************************************************)
(* Plantify Disease Detection (src/app.py): a Streamlit script that is     *)
(* re-evaluated top to bottom on every user interaction.  The model walks  *)
(* one evaluation of the script statement group by statement group (pc),   *)
(* keeps the process-wide caches of the three loaders and the widget state *)
(* across evaluations, and lets the user and the deployer act between      *)
(* evaluations.                                                            *)
(*                                                                         *)
(* Probabilities and confidences are fixed-point numbers in units of       *)
(* 1/Unit (the resolution of the displayed percentage, two decimals).      *)
(***************************************************************************)
EXTENDS Integers, Sequences, FiniteSets, TLC

\* ------------------------------------------------------------------------
\* Bounds of the model
\* ------------------------------------------------------------------------
MaxWidth == 3       \* largest classifier output width that is explored
MaxReads == 2       \* the per-loader read counter saturates here

\* ------------------------------------------------------------------------
\* Program constants
\* ------------------------------------------------------------------------
Unit == 10000            \* 100.00 % in the "{confidence*100:.2f}%" metric
HighThreshold == 8500    \* confidence > 0.85
ModerateThreshold == 6000 \* confidence > 0.6
Channels == 3            \* the tensor layout (1, 128, 128, 3)

None == "None"

\* ------------------------------------------------------------------------
\* Inputs: what can be on disk, what the user can supply
\* ------------------------------------------------------------------------
Loaders == {"load_app_model", "load_class_names", "load_disease_info"}

Missing == [status |-> "missing"]
Malformed == [status |-> "malformed"]
Ok(d) == [status |-> "ok", data |-> d]

NoneModel == [kind |-> "None"]
KerasModel(w) == [kind |-> "model", width |-> w]

ModelFiles == {Missing, Malformed} \cup {Ok(KerasModel(w)) : w \in 2..MaxWidth}

ClassLists ==
    { <<>>,
      <<"Apple_scab", "Tomato_Healthy">>,
      <<"Apple_scab", "Corn_rust", "Tomato_Healthy">> }

ClassFiles == {Missing, Malformed} \cup {Ok(l) : l \in ClassLists}

Sections == {"description", "symptoms", "prevention", "remedy"}

FieldText ==
    [ title |-> "t", description |-> "d", symptoms |-> "s",
      prevention |-> "p", remedy |-> "r" ]

\* A disease-info record holding exactly the fields of F.
Record(F) == [f \in F |-> FieldText[f]]

FullRecord == Record(Sections \cup {"title"})

InfoDicts ==
    { <<>> }
    \cup { [k \in {"Apple_scab", "Tomato_Healthy"} |->
              IF k = "Apple_scab" THEN Record(F) ELSE FullRecord]
           : F \in SUBSET Sections }
    \cup { [k \in {"Apple_scab"} |-> FullRecord],
           [k \in {"Tomato_Healthy"} |-> Record({})] }

InfoFiles == {Missing, Malformed} \cup {Ok(d) : d \in InfoDicts}

\* Files the uploader can hand over (its type filter looks at the name only)
\* and frames the camera control can hand over.
UploadFiles == {"leaf1.jpg", "leaf2.png", "broken.jpg", "gray.png"}
CameraFrames == {"frame1", "frame_broken"}

\* Image.open succeeds on these.
Decodable(f) == f \in {"leaf1.jpg", "leaf2.png", "gray.png", "frame1"}

\* Number of colour channels of the decoded raster.
ChannelsOf(f) == IF f = "gray.png" THEN 1 ELSE 3

ProbValues ==
    {0, 1499, 1500, 2000, 3999, 4000, 5000, 6000, 6001, 8000, 8500, 8501, Unit}

RECURSIVE Sum(_)
Sum(v) == IF v = <<>> THEN 0 ELSE Head(v) + Sum(Tail(v))

\* Output vectors of a classifier of width w: a probability distribution.
ProbVectors(w) == {v \in [1..w -> ProbValues] : Sum(v) = Unit}

VARIABLES
    modelFile, classFile, infoFile,        \* the three files on disk
    modelCache, classCache, infoCache,     \* st.cache_resource / st.cache_data
    reads,                                  \* file reads per loader
    upload_option, uploaded_file, camera_input,   \* widget state
    pc,                                     \* position in the script
    model, class_names, disease_info,       \* script globals
    image, shown,                           \* image handle, st.image preview
    errors,                                 \* st.error / st.info output
    predictArg, predictions, predicted_idx, confidence, predicted_class,
    metrics, banner, view, sections,        \* rendered result
    fault                                   \* exception that ended the run

files == <<modelFile, classFile, infoFile>>
caches == <<modelCache, classCache, infoCache, reads>>
widgets == <<upload_option, uploaded_file, camera_input>>
globals == <<model, class_names, disease_info>>
ingest == <<image, shown>>
predict == <<predictArg, predictions, predicted_idx, confidence, predicted_class>>
render == <<metrics, banner, view, sections>>
vars == <<files, caches, widgets, pc, globals, ingest, errors, predict,
          render, fault>>

NotCached == [cached |-> FALSE]
Cached(v, m) == [cached |-> TRUE, value |-> v, msgs |-> m]

Bump(l) == [reads EXCEPT ![l] = IF @ < MaxReads THEN @ + 1 ELSE @]

\* Messages
ErrModel == "Error loading model"
ErrModelHint == "Please ensure 'trained_model.keras' is the correct binary model file"
ErrClassNames == "Error: 'class_names.json' not found."
ErrDiseaseInfo == "Error: 'disease_info.json' not found."
ErrOpenImage == "Error opening image file. Please try a different file."
ErrNotLoaded == "App is not fully loaded. Check for file loading errors above."
ErrNoInfo == "Information for this disease is not available in the database."

\* The state of a script run before its first statement.
FreshRun ==
    /\ model = NoneModel /\ class_names = <<>> /\ disease_info = <<>>
    /\ image = None /\ shown = None /\ errors = {}
    /\ predictArg = None /\ predictions = <<>> /\ predicted_idx = 0
    /\ confidence = 0 /\ predicted_class = None
    /\ metrics = <<>> /\ banner = {} /\ view = None /\ sections = <<>>
    /\ fault = None

Init ==
    /\ modelFile \in ModelFiles
    /\ classFile \in ClassFiles
    /\ infoFile \in InfoFiles
    /\ modelCache = NotCached /\ classCache = NotCached /\ infoCache = NotCached
    /\ reads = [l \in Loaders |-> 0]
    /\ upload_option = "Upload Image"
    /\ uploaded_file = None /\ camera_input = None
    /\ pc = "load_app_model"
    /\ FreshRun

\* ------------------------------------------------------------------------
\* Resource loaders
\* ------------------------------------------------------------------------

\* Body of load_app_model: every exception is caught.
load_app_model(file) ==
    IF file.status = "ok"
    THEN [value |-> file.data, msgs |-> {}, raised |-> None]
    ELSE [value |-> NoneModel, msgs |-> {ErrModel, ErrModelHint}, raised |-> None]

\* Body of load_class_names: only FileNotFoundError is caught.
load_class_names(file) ==
    IF file.status = "ok"
    THEN [value |-> file.data, msgs |-> {}, raised |-> None]
    ELSE IF file.status = "missing"
    THEN [value |-> <<>>, msgs |-> {ErrClassNames}, raised |-> None]
    ELSE [value |-> <<>>, msgs |-> {}, raised |-> "JSONDecodeError"]

\* Body of load_disease_info: only FileNotFoundError is caught.
load_disease_info(file) ==
    IF file.status = "ok"
    THEN [value |-> file.data, msgs |-> {}, raised |-> None]
    ELSE IF file.status = "missing"
    THEN [value |-> <<>>, msgs |-> {ErrDiseaseInfo}, raised |-> None]
    ELSE [value |-> <<>>, msgs |-> {}, raised |-> "JSONDecodeError"]

\* The caching decorator: a stored entry is returned (with its messages
\* replayed) without running the body; a body that returns is stored; a
\* body that raises stores nothing.
CacheStore(cache, r) ==
    IF cache.cached THEN cache
    ELSE IF r.raised = None THEN Cached(r.value, r.msgs) ELSE cache

\* model = load_app_model()
LoadAppModel ==
    /\ pc = "load_app_model"
    /\ LET r == load_app_model(modelFile)
           c == CacheStore(modelCache, r)
       IN /\ modelCache' = c
          /\ reads' = IF modelCache.cached THEN reads ELSE Bump("load_app_model")
          /\ model' = c.value
          /\ errors' = errors \cup c.msgs
    /\ pc' = "load_class_names"
    /\ UNCHANGED <<files, classCache, infoCache, widgets, class_names,
                   disease_info, ingest, predict, render, fault>>

\* class_names = load_class_names()
LoadClassNames ==
    /\ pc = "load_class_names"
    /\ LET r == load_class_names(classFile)
           c == CacheStore(classCache, r)
       IN /\ classCache' = c
          /\ reads' = IF classCache.cached THEN reads ELSE Bump("load_class_names")
          /\ IF c.cached
             THEN /\ class_names' = c.value
                  /\ errors' = errors \cup c.msgs
                  /\ fault' = fault
                  /\ pc' = "load_disease_info"
             ELSE /\ fault' = r.raised
                  /\ pc' = "idle"
                  /\ UNCHANGED <<class_names, errors>>
    /\ UNCHANGED <<files, modelCache, infoCache, widgets, model,
                   disease_info, ingest, predict, render>>

\* disease_info = load_disease_info()
LoadDiseaseInfo ==
    /\ pc = "load_disease_info"
    /\ LET r == load_disease_info(infoFile)
           c == CacheStore(infoCache, r)
       IN /\ infoCache' = c
          /\ reads' = IF infoCache.cached THEN reads ELSE Bump("load_disease_info")
          /\ IF c.cached
             THEN /\ disease_info' = c.value
                  /\ errors' = errors \cup c.msgs
                  /\ fault' = fault
                  /\ pc' = "ingest"
             ELSE /\ fault' = r.raised
                  /\ pc' = "idle"
                  /\ UNCHANGED <<disease_info, errors>>
    /\ UNCHANGED <<files, modelCache, classCache, widgets, model,
                   class_names, ingest, predict, render>>

\* ------------------------------------------------------------------------
\* Image ingestion
\* ------------------------------------------------------------------------

\* Image.open: the decoded image, or the exception it raises.
ImageOpen(f) ==
    IF Decodable(f) THEN [image |-> f, raised |-> None]
    ELSE [image |-> None, raised |-> "UnidentifiedImageError"]

\* Variant: the upload control is read whatever the selected mode is.
image_ingestion_AnyControl(option, up, cam) ==
    IF up # None
    THEN LET o == ImageOpen(up)
         IN IF o.raised = None
            THEN [image |-> o.image, msgs |-> {}, raised |-> None]
            ELSE [image |-> None, msgs |-> {ErrOpenImage}, raised |-> None]
    ELSE IF option = "Camera Capture" /\ cam # None
         THEN LET o == ImageOpen(cam)
              IN [image |-> o.image, msgs |-> {}, raised |-> o.raised]
         ELSE [image |-> None, msgs |-> {}, raised |-> None]

\* The two branches on upload_option: the upload branch catches the
\* exception of Image.open, the camera branch does not.
image_ingestion(option, up, cam) ==
    IF option = "Upload Image"
    THEN IF up # None
         THEN LET o == ImageOpen(up)
              IN IF o.raised = None
                 THEN [image |-> o.image, msgs |-> {}, raised |-> None]
                 ELSE [image |-> None, msgs |-> {ErrOpenImage}, raised |-> None]
         ELSE [image |-> None, msgs |-> {}, raised |-> None]
    ELSE IF cam # None
         THEN LET o == ImageOpen(cam)
              IN [image |-> o.image, msgs |-> {}, raised |-> o.raised]
         ELSE [image |-> None, msgs |-> {}, raised |-> None]

\* image = None ... if image: st.image(image)
Ingest ==
    /\ pc = "ingest"
    /\ LET r == image_ingestion(upload_option, uploaded_file, camera_input)
       IN IF r.raised = None
          THEN /\ image' = r.image
               /\ shown' = r.image
               /\ errors' = errors \cup r.msgs
               /\ fault' = fault
               /\ pc' = "gate"
          ELSE /\ fault' = r.raised
               /\ pc' = "idle"
               /\ UNCHANGED <<image, shown, errors>>
    /\ UNCHANGED <<files, caches, widgets, globals, predict, render>>

\* ------------------------------------------------------------------------
\* Analysis result
\* ------------------------------------------------------------------------

\* Truth values of the script globals.
Loaded(m, names, info) ==
    /\ m # NoneModel
    /\ names # <<>>
    /\ DOMAIN info # {}

\* Variant: the gate does not look at the loaded resources.
PredictionGate_ImageOnly(img, m, names, info) == img # None

\* if image and model and class_names and disease_info
PredictionGate(img, m, names, info) == img # None /\ Loaded(m, names, info)

\* The if / elif / else of the result column.
Gate ==
    /\ pc = "gate"
    /\ IF PredictionGate(image, model, class_names, disease_info)
       THEN /\ pc' = "predict"
            /\ UNCHANGED <<errors, view>>
       ELSE IF ~Loaded(model, class_names, disease_info)
       THEN /\ errors' = errors \cup {ErrNotLoaded}
            /\ view' = "not_loaded"
            /\ pc' = "idle"
       ELSE /\ view' = "please_upload"
            /\ pc' = "idle"
            /\ UNCHANGED errors
    /\ UNCHANGED <<files, caches, widgets, globals, ingest, predict,
                   metrics, banner, sections, fault>>

\* resize((128, 128)), / 255.0, expand_dims: the shape of img_array.
Preprocess(img) ==
    IF ChannelsOf(img) = 1 THEN <<1, 128, 128>>
    ELSE <<1, 128, 128, ChannelsOf(img)>>

\* The classifier accepts a batch of 128x128 images of Channels channels.
InputShapeOk(shape) == shape = <<1, 128, 128, Channels>>

\* Variant: the scan keeps the last index that holds the largest entry.
RECURSIVE ArgMaxFrom_Last(_, _, _)
ArgMaxFrom_Last(v, i, best) ==
    IF i > Len(v) THEN best
    ELSE ArgMaxFrom_Last(v, i + 1, IF v[i] >= v[best] THEN i ELSE best)

\* np.argmax: scan keeping the first index that holds the largest entry
\* (best and i are 1-based here).
RECURSIVE ArgMaxFrom(_, _, _)
ArgMaxFrom(v, i, best) ==
    IF i > Len(v) THEN best
    ELSE ArgMaxFrom(v, i + 1, IF v[i] > v[best] THEN i ELSE best)

\* predicted_idx = np.argmax(predictions), 0-based as in the script.
argmax(v) == ArgMaxFrom(v, 2, 1) - 1

\* np.max
RECURSIVE max(_)
max(v) ==
    IF Len(v) = 1 THEN v[1]
    ELSE LET m == max(Tail(v)) IN IF v[1] >= m THEN v[1] ELSE m

\* Preprocess and model.predict, then argmax and max of the output.
Predict ==
    /\ pc = "predict"
    /\ predictArg' = image
    /\ IF InputShapeOk(Preprocess(image))
       THEN /\ \E p \in ProbVectors(model.width) :
                 /\ predictions' = p
                 /\ predicted_idx' = argmax(p)
                 /\ confidence' = max(p)
            /\ pc' = "lookup"
            /\ fault' = fault
       ELSE /\ fault' = "ValueError"
            /\ pc' = "idle"
            /\ UNCHANGED <<predictions, predicted_idx, confidence>>
    /\ UNCHANGED <<files, caches, widgets, globals, ingest, errors,
                   predicted_class, render>>

\* class_names[predicted_idx], with the list's bounds check.
GetItem(names, idx) ==
    IF idx < Len(names)
    THEN [value |-> names[idx + 1], raised |-> None]
    ELSE [value |-> None, raised |-> "IndexError"]

\* predicted_class = class_names[predicted_idx]
Lookup ==
    /\ pc = "lookup"
    /\ LET r == GetItem(class_names, predicted_idx)
       IN IF r.raised = None
          THEN /\ predicted_class' = r.value
               /\ fault' = fault
               /\ pc' = "render"
          ELSE /\ fault' = r.raised
               /\ pc' = "idle"
               /\ UNCHANGED predicted_class
    /\ UNCHANGED <<files, caches, widgets, globals, ingest, errors,
                   predictArg, predictions, predicted_idx, confidence, render>>

\* Variant: the thresholds are inclusive.
ConfidenceBanner_Inclusive(c) ==
    IF c >= HighThreshold THEN "high"
    ELSE IF c >= ModerateThreshold THEN "moderate"
    ELSE "low"

\* The confidence banner: success / warning / error.
ConfidenceBanner(c) ==
    IF c > HighThreshold THEN "high"
    ELSE IF c > ModerateThreshold THEN "moderate"
    ELSE "low"

\* predicted_class.lower()
Lower ==
    [ Apple_scab |-> "apple_scab", Corn_rust |-> "corn_rust",
      Tomato_Healthy |-> "tomato_healthy" ]

\* "healthy" in s, for the lower-cased labels
ContainsHealthy(s) == s \in {"tomato_healthy"}

\* info.get(key, default)
Get(info, key, default) == IF key \in DOMAIN info THEN info[key] ELSE default

\* The fallback text of each of the four tabs.
Placeholder ==
    [ description |-> "No description available.",
      symptoms |-> "No symptoms information available.",
      prevention |-> "No prevention information available.",
      remedy |-> "No remedy information available." ]

\* Variant: a tab writes its fallback text whenever any field is absent.
SectionText_AllOrNothing(info, x) ==
    IF Sections \subseteq DOMAIN info THEN info[x] ELSE Placeholder[x]

\* What a tab writes.
SectionText(info, x) == Get(info, x, Placeholder[x])

\* The four tabs of the disease branch, and the subheader of the first.
TabsView(info, cls) ==
    [x \in Sections \cup {"subheader"} |->
        IF x = "subheader" THEN Get(info, "title", cls)
        ELSE SectionText(info, x)]

\* The flat block of the healthy branch.
HealthyView(info) ==
    [ status |-> Get(info, "title", "Healthy"),
      description |-> Get(info, "description",
                          "The plant appears to be in good health. Keep up the good care!"),
      symptoms |-> Get(info, "symptoms", "N/A"),
      prevention |-> Get(info, "prevention", "N/A") ]

\* Metrics, confidence banner and disease information.
Render ==
    /\ pc = "render"
    /\ metrics' = <<predicted_class, confidence>>
    /\ banner' = banner \cup {ConfidenceBanner(confidence)}
    /\ IF predicted_class \in DOMAIN disease_info
       THEN LET info == disease_info[predicted_class]
            IN IF ContainsHealthy(Lower[predicted_class])
               THEN /\ view' = "healthy"
                    /\ sections' = HealthyView(info)
                    /\ UNCHANGED errors
               ELSE /\ view' = "tabs"
                    /\ sections' = TabsView(info, predicted_class)
                    /\ UNCHANGED errors
       ELSE /\ view' = "no_info"
            /\ errors' = errors \cup {ErrNoInfo}
            /\ UNCHANGED sections
    /\ pc' = "idle"
    /\ UNCHANGED <<files, caches, widgets, globals, ingest, predict, fault>>

\* ------------------------------------------------------------------------
\* The user and the deployer
\* ------------------------------------------------------------------------

\* A widget interaction re-evaluates the script from its first line.
StartRun ==
    /\ pc' = "load_app_model"
    /\ model' = NoneModel /\ class_names' = <<>> /\ disease_info' = <<>>
    /\ image' = None /\ shown' = None /\ errors' = {}
    /\ predictArg' = None /\ predictions' = <<>> /\ predicted_idx' = 0
    /\ confidence' = 0 /\ predicted_class' = None
    /\ metrics' = <<>> /\ banner' = {} /\ view' = None /\ sections' = <<>>
    /\ fault' = None

\* The run got as far as the sidebar radio and the input control.
ControlsRendered == pc = "idle" /\ fault # "JSONDecodeError"

\* st.sidebar.radio
SelectMode ==
    /\ ControlsRendered
    /\ \E m \in {"Upload Image", "Camera Capture"} :
          /\ m # upload_option
          /\ upload_option' = m
    /\ StartRun
    /\ UNCHANGED <<files, caches, uploaded_file, camera_input>>

\* st.file_uploader: the user picks a file, or removes it.
UploadFile ==
    /\ ControlsRendered
    /\ upload_option = "Upload Image"
    /\ \E f \in UploadFiles \cup {None} :
          /\ f # uploaded_file
          /\ uploaded_file' = f
    /\ StartRun
    /\ UNCHANGED <<files, caches, upload_option, camera_input>>

\* st.camera_input: the user takes a picture, or clears it.
CameraCapture ==
    /\ ControlsRendered
    /\ upload_option = "Camera Capture"
    /\ \E f \in CameraFrames \cup {None} :
          /\ f # camera_input
          /\ camera_input' = f
    /\ StartRun
    /\ UNCHANGED <<files, caches, upload_option, uploaded_file>>

\* The page is reloaded: same widget state, new run.
Rerun ==
    /\ pc = "idle"
    /\ StartRun
    /\ UNCHANGED <<files, caches, widgets>>

DefaultModel == Ok(KerasModel(2))
DefaultClassNames == Ok(<<"Apple_scab", "Tomato_Healthy">>)
DefaultDiseaseInfo ==
    Ok([k \in {"Apple_scab", "Tomato_Healthy"} |-> FullRecord])

\* The deployer puts a file in place that was missing or unreadable.
InstallFile ==
    /\ \/ /\ modelFile.status # "ok"
          /\ modelFile' = DefaultModel
          /\ UNCHANGED <<classFile, infoFile>>
       \/ /\ classFile.status # "ok"
          /\ classFile' = DefaultClassNames
          /\ UNCHANGED <<modelFile, infoFile>>
       \/ /\ infoFile.status # "ok"
          /\ infoFile' = DefaultDiseaseInfo
          /\ UNCHANGED <<modelFile, classFile>>
    /\ UNCHANGED <<caches, widgets, pc, globals, ingest, errors, predict,
                   render, fault>>

Next ==
    \/ LoadAppModel
    \/ LoadClassNames
    \/ LoadDiseaseInfo
    \/ Ingest
    \/ Gate
    \/ Predict
    \/ Lookup
    \/ Render
    \/ SelectMode
    \/ UploadFile
    \/ CameraCapture
    \/ Rerun
    \/ InstallFile

Spec == Init /\ [][Next]_vars

\* ------------------------------------------------------------------------
\* Properties
\* ------------------------------------------------------------------------

\* The control of the selected input mode.
CurrentControl ==
    IF upload_option = "Upload Image" THEN uploaded_file ELSE camera_input

\* The run is past image ingestion.
Ingested ==
    \/ pc \in {"gate", "predict", "lookup", "render"}
    \/ pc = "idle" /\ fault # "JSONDecodeError"

\* A prediction result is on the page.
ResultRendered == metrics # <<>>

\* C1: when a loader has returned its unavailable value (model None, label
\* list empty, disease info empty), no run ever reaches the prediction
\* block: predict is not invoked, whatever image is supplied.
C1_NoInferenceWhenUnavailable ==
    (\/ modelCache.cached /\ modelCache.value = NoneModel
     \/ classCache.cached /\ classCache.value = <<>>
     \/ infoCache.cached /\ DOMAIN infoCache.value = {})
    => /\ pc \notin {"predict", "lookup", "render"}
       /\ predictArg = None
       /\ ~ResultRendered

\* C1 witness: the model file was missing, the other two resources loaded,
\* an image was supplied, and the run ended without inference.
C1_Witness ==
    /\ modelCache.cached /\ modelCache.value = NoneModel
    /\ ErrModel \in modelCache.msgs
    /\ class_names # <<>> /\ DOMAIN disease_info # {}
    /\ image # None
    /\ pc = "idle" /\ view = "not_loaded" /\ predictArg = None

\* C2: whenever a result is rendered exactly one confidence banner is shown:
\* high iff c > 0.85, moderate iff 0.6 < c <= 0.85, low iff c <= 0.6.
C2_ConfidenceTier ==
    ResultRendered =>
        /\ Cardinality(banner) = 1
        /\ ("high" \in banner) <=> (confidence > 8500)
        /\ ("moderate" \in banner) <=> (6000 < confidence /\ confidence <= 8500)
        /\ ("low" \in banner) <=> (confidence <= 6000)

\* C2 witness: the boundary value 0.85 is rendered as moderate.
C2_Witness ==
    /\ ResultRendered /\ confidence = 8500 /\ banner = {"moderate"}

\* C3: predicted_idx is the first index holding the maximum entry of the
\* probability vector, confidence is that entry, and with a label list as
\* long as the vector predicted_class is the label at predicted_idx.
C3_ArgMaxAndLabel ==
    predictions # <<>> =>
        LET i == predicted_idx + 1
        IN /\ i \in 1..Len(predictions)
           /\ \A j \in 1..Len(predictions) : predictions[j] <= predictions[i]
           /\ \A j \in 1..(i - 1) : predictions[j] < predictions[i]
           /\ confidence = predictions[i]
           /\ (Len(class_names) = Len(predictions) /\ pc # "lookup")
                 => /\ fault = None
                    /\ predicted_class = class_names[i]

\* C3 witness: labels of length two with the vector [0.2, 0.8] give the
\* second label and 0.8.
C3_Witness ==
    /\ Len(class_names) = 2
    /\ predictions = <<2000, 8000>>
    /\ predicted_idx = 1
    /\ confidence = 8000
    /\ predicted_class = class_names[2]

\* C4 (as claimed): a loader that runs its body on a missing or unreadable
\* file returns its unavailable value, shows an error, and the run goes on
\* to the next statement without a fault.
C4_LoadFailureYieldsSentinel ==
    [][ /\ (pc = "load_app_model" /\ pc' # pc /\ ~modelCache.cached
              /\ modelFile.status # "ok")
           => /\ model' = NoneModel /\ ErrModel \in errors'
              /\ fault' = None /\ pc' = "load_class_names"
        /\ (pc = "load_class_names" /\ pc' # pc /\ ~classCache.cached
              /\ classFile.status # "ok")
           => /\ class_names' = <<>> /\ ErrClassNames \in errors'
              /\ fault' = None /\ pc' = "load_disease_info"
        /\ (pc = "load_disease_info" /\ pc' # pc /\ ~infoCache.cached
              /\ infoFile.status # "ok")
           => /\ DOMAIN disease_info' = {} /\ ErrDiseaseInfo \in errors'
              /\ fault' = None /\ pc' = "ingest"
      ]_vars

\* C5 (as claimed): in either input mode, once ingestion has run on bytes
\* that do not decode, an error is shown, the image is absent, the run has
\* no fault, and neither preview, inference nor result rendering happened.
C5_DecodeFailureHandled ==
    (Ingested /\ CurrentControl # None /\ ~Decodable(CurrentControl))
    => /\ ErrOpenImage \in errors
       /\ image = None /\ shown = None
       /\ fault = None
       /\ predictArg = None /\ ~ResultRendered

\* The record of the predicted class.
PredictedInfo == disease_info[predicted_class]

\* C6 (as claimed): in the disease branch every one of the four sections
\* shows the record's field when present and otherwise the text
\* "No X information available." with X the section's name.
C6_PlaceholderAsClaimed ==
    view = "tabs" =>
        \A x \in Sections :
            sections[x] =
                IF x \in DOMAIN PredictedInfo THEN PredictedInfo[x]
                ELSE [ description |-> "No description information available.",
                       symptoms |-> "No symptoms information available.",
                       prevention |-> "No prevention information available.",
                       remedy |-> "No remedy information available." ][x]

\* C6 (amended): in the disease branch every one of the four sections
\* independently shows the record's field when present; when absent,
\* symptoms, prevention and remedy show "No X information available." and
\* description shows "No description available."
C6_SectionFallback ==
    view = "tabs" =>
        \A x \in Sections :
            sections[x] =
                IF x \in DOMAIN PredictedInfo THEN PredictedInfo[x]
                ELSE [ description |-> "No description available.",
                       symptoms |-> "No symptoms information available.",
                       prevention |-> "No prevention information available.",
                       remedy |-> "No remedy information available." ][x]

\* C6 witness: a record with a description only: the description is shown
\* and the three other sections show their fallback text.
C6_Witness ==
    /\ view = "tabs"
    /\ DOMAIN PredictedInfo = {"description"}
    /\ sections["description"] = "d"
    /\ sections["symptoms"] = "No symptoms information available."
    /\ sections["prevention"] = "No prevention information available."
    /\ sections["remedy"] = "No remedy information available."

\* C7 (as claimed): when predicted_idx is out of bounds for the label list,
\* the run ends with a reported configuration error: no index fault, and no
\* class label displayed.
C7_IndexMismatchReported ==
    (predictions # <<>> /\ predicted_idx >= Len(class_names) /\ pc # "lookup")
    => /\ fault = None
       /\ errors # {}
       /\ ~ResultRendered

\* C8 (as claimed): when the forward pass fails on the prepared tensor, the
\* failure is caught and reported: the run has no fault, an error is shown,
\* and no result is rendered.
C8_PredictFailureCaught ==
    (predictArg # None /\ ~InputShapeOk(Preprocess(predictArg)))
    => /\ fault = None
       /\ errors # {}
       /\ ~ResultRendered

\* C9 (as claimed): each loader reads its file at most once, and a stored
\* value is never changed afterwards.
C9_ReadOnceWriteOnce ==
    [][ /\ \A l \in Loaders : reads'[l] <= 1
        /\ modelCache.cached => modelCache' = modelCache
        /\ classCache.cached => classCache' = classCache
        /\ infoCache.cached => infoCache' = infoCache
      ]_vars

\* C10: the image held, previewed or passed to inference in a run is the
\* one supplied by the control of the selected input mode; an image of the
\* other mode or an earlier selection is never used.
C10_CurrentImageOnly ==
    /\ image # None => image = CurrentControl
    /\ shown # None => shown = CurrentControl
    /\ predictArg # None => predictArg = CurrentControl

\* C10 witness: after an upload and a switch to the camera, the frame just
\* captured is previewed and classified while the upload is still selected
\* in the other control.
C10_Witness ==
    /\ upload_option = "Camera Capture"
    /\ uploaded_file = "leaf1.jpg"
    /\ camera_input = "frame1"
    /\ shown = "frame1" /\ predictArg = "frame1"
    /\ ResultRendered
====
